---- MODULE Spec2Model ----
(***************************************************************************)
(* The session synchronization relay of the collaborative circuit editor:  *)
(* the session registry (server/sessionManager.js) and the REST and        *)
(* WebSocket handlers that use it (server/index.js).                       *)
(*                                                                         *)
(* Identifiers are uuidv4 values in the code.  They are modelled by        *)
(* counters: every call of uuidv4 yields an identifier that was never      *)
(* issued before, and a socket client can name only identifiers that have  *)
(* been issued (it cannot guess one the server will issue later).          *)
(* A user record {id, name, role, color, joinedAt} is modelled by its role *)
(* (the id is the key of the users map; name, color and time are never     *)
(* read by the server).  A Yjs document is modelled by the set of updates  *)
(* merged into it.                                                         *)
(*                                                                         *)
(* The client's CRDTManager (client/js/wire.js) is modelled per transport, *)
(* with the frames in flight in both directions, for the claims about its  *)
(* connect promise, its mutators and what it sends.                        *)
(***************************************************************************)
EXTENDS Integers, Sequences, FiniteSets, TLC

\* ------------------------------------------------------------------ bounds
MaxSessions == 2   \* createSession calls in a run
MaxUsers == 2      \* user ids issued in a run (owners included)
MaxConns == 2      \* WebSocket transports opened in a run
MaxEntries == 3    \* {ws, userId} objects held by the connection sets
MaxUpdates == 1    \* distinct document updates clients can send
MaxQueue == 1      \* frames in flight per transport and direction before a sender waits

\* ------------------------------------------------------------- JS values
Null == 0                      \* null / a falsy identifier
Undefined == "<undefined>"     \* an absent argument or body field
NullUser == "<null>"           \* getUser's null

SessionIds == 1..MaxSessions
UserIds == 1..MaxUsers
Conns == 1..MaxConns
Updates == 1..MaxUpdates

\* values generateInviteCode can draw
Codes == {"K3F9QX", "Z81LMP"}
\* what a request can carry as inviteCode
CodeInputs == Codes \cup {"", Undefined}
\* what a request can carry as role
RoleInputs == {"viewer", "editor", "owner", "admin", Undefined}
AwarenessStates == {"cursor"}
\* an update array the document engine cannot decode
Malformed == 0
\* what a sync message can carry as update
UpdateInputs == Updates \cup {Malformed}

VARIABLES
    sessions,      \* sessionManager.js: sessions (live session records)
    userSessions,  \* sessionManager.js: userSessions (userId -> sessionId)
    docs,          \* index.js: docs (sessionId -> document)
    connections,   \* index.js: connections (sessionId -> Set<{ws, userId}>)
    conn,          \* per transport: readyState and the closure's sessionId, userId
    nextSession,   \* next session id uuidv4 issues
    nextUser,      \* next user id uuidv4 issues
    ev,            \* the request or socket event handled last: arguments and return value
    pre,           \* the maps and transports as that handler found them
    sent,          \* the frames that handler put on the wire, in order
    held,          \* per writable transport: what its client was handed (wire.js handleMessage)
    client,        \* per transport: the CRDTManager that owns it (wire.js)
    upstream,      \* per transport: frames in flight from the client to the relay
    downstream     \* per transport: frames in flight from the relay to the client

vars == <<sessions, userSessions, docs, connections, conn, nextSession, nextUser,
          ev, pre, sent, held, client, upstream, downstream>>

clientVars == <<client, upstream, downstream>>

\* ----------------------------------------------------------- map helpers
Remove(f, k) == [x \in DOMAIN f \ {k} |-> f[x]]
Put(f, k, v) == [x \in DOMAIN f \cup {k} |-> IF x = k THEN v ELSE f[x]]

\* JS truthiness of a request field
Truthy(v) == v \notin {Undefined, ""}

\* default parameter values of joinSession(sessionId, userName, role = "editor", inviteCode = null)
DefaultRole(role) == IF role = Undefined THEN "editor" ELSE role

\* -------------------------------------------------------- sessionManager
\* getSession: the summary, or null
NotFound == [found |-> FALSE]
GetSession(sid) ==
    IF sid \in DOMAIN sessions
    THEN [found |-> TRUE, id |-> sid, inviteCode |-> sessions[sid].inviteCode,
          users |-> sessions[sid].users]
    ELSE NotFound

\* getSessionByInviteCode: the ids of the sessions the scan can stop at
GetSessionByInviteCode(code) == {sid \in DOMAIN sessions : sessions[sid].inviteCode = code}

\* getSessionUsers
GetSessionUsers(sid) == IF sid \in DOMAIN sessions THEN sessions[sid].users ELSE <<>>

\* getUser
GetUser(sid, uid) ==
    IF sid \in DOMAIN sessions /\ uid \in DOMAIN sessions[sid].users
    THEN sessions[sid].users[uid]
    ELSE NullUser

\* canEdit, with the forgotten role test as its mutant
CanEditAnyMember(sid, uid) == GetUser(sid, uid) # NullUser

CanEditOwnerOnly(sid, uid) == GetUser(sid, uid) = "owner"

CanEdit(sid, uid) ==
    LET user == GetUser(sid, uid)
    IN IF user = NullUser THEN FALSE ELSE user = "owner" \/ user = "editor"

\* joinSession: the role stored for the requested one
ValidRoleAsRequested(role) == role

ValidRoleOwnerKept(role) == IF role \in {"viewer", "owner"} THEN role ELSE "editor"

ValidRole(role) == IF role = "viewer" THEN "viewer" ELSE "editor"

\* joinSession: the error it returns, "" when it goes on to add the user
JoinSessionError(sid, inviteCode) ==
    IF sid \notin DOMAIN sessions THEN "Session not found"
    ELSE IF Truthy(inviteCode) /\ sessions[sid].inviteCode # inviteCode
         THEN "Invalid invite code"
         ELSE ""

\* updateUserRole: the error it returns, "" when it goes on to set the role
UpdateUserRoleErrorAnyMember(sid, target, requester) ==
    IF sid \notin DOMAIN sessions THEN "Session not found"
    ELSE IF requester \notin DOMAIN sessions[sid].users
         THEN "Only owner can change roles"
         ELSE IF target \notin DOMAIN sessions[sid].users THEN "User not found"
              ELSE IF sessions[sid].users[target] = "owner"
                   THEN "Cannot change owner role"
                   ELSE ""

UpdateUserRoleErrorOwnerTarget(sid, target, requester) ==
    IF sid \notin DOMAIN sessions THEN "Session not found"
    ELSE IF requester \notin DOMAIN sessions[sid].users
            \/ sessions[sid].users[requester] # "owner"
         THEN "Only owner can change roles"
         ELSE IF target \notin DOMAIN sessions[sid].users THEN "User not found"
              ELSE ""

UpdateUserRoleError(sid, target, requester) ==
    IF sid \notin DOMAIN sessions THEN "Session not found"
    ELSE IF requester \notin DOMAIN sessions[sid].users
            \/ sessions[sid].users[requester] # "owner"
         THEN "Only owner can change roles"
         ELSE IF target \notin DOMAIN sessions[sid].users THEN "User not found"
              ELSE IF sessions[sid].users[target] = "owner"
                   THEN "Cannot change owner role"
                   ELSE ""

\* ------------------------------------------------------------- index.js
\* ws.readyState: "open" is 1 (OPEN); ws.close() moves it to "closing"; the close
\* event finds it "closed".  Message events are still emitted while closing.
Receiving == {"open", "closing"}

\* ws.send(data): the frame goes out only on an open transport
Send(st, c, frame) == IF st[c].state = "open" THEN <<[to |-> c, frame |-> frame]>> ELSE <<>>

\* getYDoc: the docs map after the call, with the forgotten docs.has test as its mutant
GetYDocFresh(d, sid) == Put(d, sid, {})

GetYDoc(d, sid) == IF sid \in DOMAIN d THEN d ELSE Put(d, sid, {})

\* Y.applyUpdate(doc, update): Yjs integrates the structs of the update that the
\* document's store does not hold yet and skips the ones it holds
ApplyUpdate(doc, update) == doc \cup {update}

\* broadcastToSession over the registry cs and the transports st
BroadcastToSessionNoExclude(cs, st, sid, message, excludeWs) ==
    IF sid \notin DOMAIN cs THEN <<>>
    ELSE LET open == SelectSeq(cs[sid], LAMBDA e : st[e.ws].state = "open")
         IN [i \in 1..Len(open) |-> [to |-> open[i].ws, frame |-> message]]

BroadcastToSession(cs, st, sid, message, excludeWs) ==
    IF sid \notin DOMAIN cs THEN <<>>
    ELSE LET open == SelectSeq(cs[sid],
                               LAMBDA e : e.ws # excludeWs /\ st[e.ws].state = "open")
         IN [i \in 1..Len(open) |-> [to |-> open[i].ws, frame |-> message]]

\* broadcastAwareness, with a fan-out that leaves out the sending user as its mutant
BroadcastAwarenessSkipOwnUser(cs, st, sid, uid, state) ==
    IF sid \notin DOMAIN cs THEN <<>>
    ELSE LET open == SelectSeq(cs[sid],
                               LAMBDA e : e.userId # uid /\ st[e.ws].state = "open")
         IN [i \in 1..Len(open) |->
                [to |-> open[i].ws,
                 frame |-> [type |-> "awareness", userId |-> uid, state |-> state]]]

BroadcastAwareness(cs, st, sid, uid, state) ==
    BroadcastToSession(cs, st, sid,
        [type |-> "awareness", userId |-> uid, state |-> state], Null)

\* the number of {ws, userId} objects in all connection sets
TotalEntries ==
    Cardinality({p \in (DOMAIN connections) \X (1..MaxEntries) :
                    p[2] <= Len(connections[p[1]])})

\* close handler: the set of the session without its first entry for ws
Unregister(cs, sid, c) ==
    IF sid \notin DOMAIN cs THEN cs
    ELSE LET s == cs[sid]
             hits == {i \in 1..Len(s) : s[i].ws = c}
         IN IF hits = {} THEN cs
            ELSE LET k == CHOOSE i \in hits : \A j \in hits : i <= j
                 IN [cs EXCEPT ![sid] = SubSeq(s, 1, k - 1) \o SubSeq(s, k + 1, Len(s))]

\* ---------------------------------------------------------------- client
\* CRDTManager.handleMessage: an init frame's state and a sync frame's update are
\* applied to the client's document and an init frame's role is kept as the client's
\* role; joined is the sessions it got an init frame for
NothingHeld == [joined |-> {}, updates |-> {}, role |-> NullUser]

\* this.role = message.role: the role of the init frames handed to transport d, prev
\* when there is none
FrameRole(out, d, prev) ==
    LET inits == {i \in 1..Len(out) : out[i].to = d /\ out[i].frame.type = "init"}
    IN IF inits = {} THEN prev
       ELSE out[CHOOSE i \in inits : \A j \in inits : j <= i].frame.role

\* the updates the frames of out hand to transport d
FrameUpdates(out, d) ==
    UNION {IF out[i].frame.type = "init" THEN out[i].frame.state
           ELSE IF out[i].frame.type = "sync" THEN {out[i].frame.update}
           ELSE {} : i \in {j \in 1..Len(out) : out[j].to = d}}

\* what the clients hold once a handler has left the transports as st and sent out for
\* session sid; own is what the relay accepted from ws; a transport that is no longer
\* writable is not followed any further
HeldAfter(st, out, sid, ws, own) ==
    [d \in Conns |->
        IF st[d].state # "open" THEN NothingHeld
        ELSE [joined |-> held[d].joined
                         \cup {sid : i \in {j \in 1..Len(out) :
                                      out[j].to = d /\ out[j].frame.type = "init"}},
              updates |-> held[d].updates
                          \cup {<<sid, u>> : u \in FrameUpdates(out, d)}
                          \cup {<<sid, u>> : u \in IF d = ws THEN own ELSE {}},
              role |-> FrameRole(out, d, held[d].role)]]

\* ----------------------------------------------------------------- Init
\* what a handler finds when it starts
\* new CRDTManager() after init(): no transport, no promise, role null, an empty Y.Doc
NoManager ==
    [ws |-> "none", promise |-> "none", sessionId |-> Null, userId |-> Null,
     role |-> NullUser, doc |-> {}]

\* ws.close() on the relay's side: the close frame that follows the frames sent before
CloseFrame == [type |-> "close"]

\* the frames of out addressed to d, in the order they were sent
FramesFor(out, d) ==
    LET mine == SelectSeq(out, LAMBDA e : e.to = d)
    IN [i \in 1..Len(mine) |-> mine[i].frame]

\* the frames in flight to the clients once a handler that found the transports as
\* before and left them as after has sent out: a frame for a client whose end is
\* closed is lost, and a transport the handler closed gets the close frame last
Deliver(q, out, before, after) ==
    [d \in Conns |->
        IF client[d].ws = "closed" THEN <<>>
        ELSE q[d] \o FramesFor(out, d)
                  \o (IF before[d].state = "open" /\ after[d].state = "closing"
                      THEN <<CloseFrame>> ELSE <<>>)]

Pre ==
    [sessions |-> sessions, userSessions |-> userSessions, docs |-> docs,
     connections |-> connections, conn |-> conn, nextSession |-> nextSession,
     nextUser |-> nextUser]

Init ==
    /\ sessions = <<>>
    /\ userSessions = <<>>
    /\ docs = <<>>
    /\ connections = <<>>
    /\ conn = [c \in Conns |-> [state |-> "none", sessionId |-> Null, userId |-> Null]]
    /\ nextSession = 1
    /\ nextUser = 1
    /\ ev = [op |-> "start"]
    /\ pre = Pre
    /\ sent = <<>>
    /\ held = [c \in Conns |-> NothingHeld]
    /\ client = [c \in Conns |-> NoManager]
    /\ upstream = [c \in Conns |-> <<>>]
    /\ downstream = [c \in Conns |-> <<>>]

\* ------------------------------------------------------------- REST / API
\* POST /api/sessions -> createSession
CreateSession(code) ==
    /\ nextSession <= MaxSessions
    /\ nextUser <= MaxUsers
    /\ LET sid == nextSession
           uid == nextUser
       IN /\ sessions' = Put(sessions, sid,
                             [ownerId |-> uid, inviteCode |-> code,
                              users |-> Put(<<>>, uid, "owner")])
          /\ userSessions' = Put(userSessions, uid, sid)
          /\ ev' = [op |-> "createSession", sessionId |-> sid, userId |-> uid,
                    inviteCode |-> code, role |-> "owner"]
    /\ nextSession' = nextSession + 1
    /\ nextUser' = nextUser + 1
    /\ pre' = Pre
    /\ sent' = <<>>
    /\ UNCHANGED <<held, docs, connections, conn>>

\* POST /api/sessions/:sessionId/join -> joinSession, then the user-joined broadcast
JoinSession(sid, role, inviteCode) ==
    LET error == JoinSessionError(sid, inviteCode)
    IN /\ pre' = Pre
       /\ IF error # ""
          THEN /\ ev' = [op |-> "joinSession", sid |-> sid, role |-> role,
                         inviteCode |-> inviteCode, error |-> error,
                         userId |-> Null, granted |-> ""]
               /\ sent' = <<>>
               /\ UNCHANGED <<held, sessions, userSessions, docs, connections, conn,
                              nextSession, nextUser>>
          ELSE /\ nextUser <= MaxUsers
               /\ LET uid == nextUser
                      validRole == ValidRole(DefaultRole(role))
                      users == Put(sessions[sid].users, uid, validRole)
                  IN /\ sessions' = [sessions EXCEPT ![sid].users = users]
                     /\ userSessions' = Put(userSessions, uid, sid)
                     /\ ev' = [op |-> "joinSession", sid |-> sid, role |-> role,
                               inviteCode |-> inviteCode, error |-> "",
                               userId |-> uid, granted |-> validRole]
                     /\ sent' = BroadcastToSession(connections, conn, sid,
                                    [type |-> "user-joined", users |-> users], Null)
               /\ nextUser' = nextUser + 1
               /\ UNCHANGED <<held, docs, connections, conn, nextSession>>

\* leaveSession on a live session: the sessions map after the call
SessionsAfterLeaveKeepEmpty(sid, uid) ==
    [sessions EXCEPT ![sid].users = Remove(sessions[sid].users, uid)]

SessionsAfterLeaveReclaimAlways(sid, uid) == Remove(sessions, sid)

SessionsAfterLeave(sid, uid) ==
    LET users == Remove(sessions[sid].users, uid)
    IN IF DOMAIN users = {}
       THEN Remove(sessions, sid)
       ELSE [sessions EXCEPT ![sid].users = users]

\* leaveSession
LeaveSession(sid, uid) ==
    /\ IF sid \notin DOMAIN sessions
       THEN /\ ev' = [op |-> "leaveSession", sid |-> sid, userId |-> uid, ok |-> FALSE]
            /\ UNCHANGED <<sessions, userSessions>>
       ELSE /\ sessions' = SessionsAfterLeave(sid, uid)
            /\ userSessions' = Remove(userSessions, uid)
            /\ ev' = [op |-> "leaveSession", sid |-> sid, userId |-> uid, ok |-> TRUE]
    /\ pre' = Pre
    /\ sent' = <<>>
    /\ UNCHANGED <<held, docs, connections, conn, nextSession, nextUser>>

\* updateUserRole: the role it stores for newRole, with the missing clamp as its mutant
ClampRoleAsRequested(newRole) == newRole

ClampRole(newRole) == IF newRole = "viewer" THEN "viewer" ELSE "editor"

\* updateUserRole
UpdateUserRole(sid, target, newRole, requester) ==
    LET error == UpdateUserRoleError(sid, target, requester)
    IN /\ sessions' = IF error = ""
                      THEN [sessions EXCEPT ![sid].users[target] = ClampRole(newRole)]
                      ELSE sessions
       /\ ev' = [op |-> "updateUserRole", sid |-> sid, target |-> target,
                 newRole |-> newRole, requester |-> requester, error |-> error]
       /\ pre' = Pre
       /\ sent' = <<>>
       /\ UNCHANGED <<held, userSessions, docs, connections, conn, nextSession, nextUser>>

\* canEdit called on its own
CanEditCall(sid, uid) ==
    /\ ev' = [op |-> "canEdit", sid |-> sid, userId |-> uid, result |-> CanEdit(sid, uid)]
    /\ pre' = Pre
    /\ sent' = <<>>
    /\ UNCHANGED <<held, sessions, userSessions, docs, connections, conn, nextSession, nextUser>>

\* GET /api/sessions/:sessionId -> getSession
GetSessionCall(sid) ==
    /\ ev' = [op |-> "getSession", sid |-> sid, result |-> GetSession(sid)]
    /\ pre' = Pre
    /\ sent' = <<>>
    /\ UNCHANGED <<held, sessions, userSessions, docs, connections, conn, nextSession, nextUser>>

\* GET /api/sessions/invite/:inviteCode -> getSessionByInviteCode; the scan stops at
\* the first session in the map's order that has the code
GetSessionByInviteCodeCall(code) ==
    /\ LET hits == GetSessionByInviteCode(code)
       IN ev' = [op |-> "getSessionByInviteCode", inviteCode |-> code,
                 result |-> IF hits = {} THEN Null
                            ELSE CHOOSE sid \in hits : \A other \in hits : sid <= other]
    /\ pre' = Pre
    /\ sent' = <<>>
    /\ UNCHANGED <<held, sessions, userSessions, docs, connections, conn, nextSession, nextUser>>

\* ------------------------------------------------------------ WebSocket
\* wss.on("connection"): transports are numbered in the order they open
Connection(c) ==
    /\ conn[c].state = "none"
    /\ \A d \in Conns : d < c => conn[d].state # "none"
    /\ conn' = [conn EXCEPT ![c].state = "open"]
    /\ ev' = [op |-> "connection", ws |-> c]
    /\ pre' = Pre
    /\ sent' = <<>>
    /\ UNCHANGED <<held, sessions, userSessions, docs, connections, nextSession, nextUser>>

\* ws.on("message"), case "join", with the add placed inside the test that creates the
\* session's set (only the first joiner is registered) as its mutant
JoinRegisterFirstOnly(c, sid, uid) ==
    /\ conn[c].state \in Receiving
    /\ LET user == GetUser(sid, uid)
           bound == [conn EXCEPT ![c].sessionId = sid, ![c].userId = uid]
       IN IF user = NullUser
          THEN /\ conn' = [bound EXCEPT ![c].state = "closing"]
               /\ sent' = Send(conn, c, [type |-> "error",
                                         message |-> "Invalid session or user"])
               /\ UNCHANGED <<docs, connections>>
          ELSE /\ TotalEntries < MaxEntries
               /\ conn' = bound
               /\ connections' =
                      IF sid \in DOMAIN connections THEN connections
                      ELSE Put(connections, sid, <<[ws |-> c, userId |-> uid]>>)
               /\ docs' = GetYDoc(docs, sid)
               /\ sent' = Send(conn, c, [type |-> "init", state |-> docs'[sid],
                                         users |-> GetSessionUsers(sid), role |-> user])
                          \o BroadcastToSession(connections', conn, sid,
                                 [type |-> "user-connected", userId |-> uid, user |-> user], c)
    /\ ev' = [op |-> "join", ws |-> c, sid |-> sid, userId |-> uid]
    /\ pre' = Pre
    /\ UNCHANGED <<sessions, userSessions, nextSession, nextUser>>
    /\ held' = HeldAfter(conn', sent', sid, c, {})

\* ws.on("message"), case "join", with the notice fanned out before the init frame is
\* sent as its mutant
JoinNotifyBeforeInit(c, sid, uid) ==
    /\ conn[c].state \in Receiving
    /\ LET user == GetUser(sid, uid)
           bound == [conn EXCEPT ![c].sessionId = sid, ![c].userId = uid]
       IN IF user = NullUser
          THEN /\ conn' = [bound EXCEPT ![c].state = "closing"]
               /\ sent' = Send(conn, c, [type |-> "error",
                                         message |-> "Invalid session or user"])
               /\ UNCHANGED <<docs, connections>>
          ELSE /\ TotalEntries < MaxEntries
               /\ conn' = bound
               /\ connections' =
                      LET cs == IF sid \in DOMAIN connections THEN connections
                                ELSE Put(connections, sid, <<>>)
                      IN [cs EXCEPT ![sid] = Append(@, [ws |-> c, userId |-> uid])]
               /\ docs' = GetYDoc(docs, sid)
               /\ sent' = BroadcastToSession(connections', conn, sid,
                              [type |-> "user-connected", userId |-> uid, user |-> user], c)
                          \o Send(conn, c, [type |-> "init", state |-> docs'[sid],
                                            users |-> GetSessionUsers(sid), role |-> user])
    /\ ev' = [op |-> "join", ws |-> c, sid |-> sid, userId |-> uid]
    /\ pre' = Pre
    /\ UNCHANGED <<sessions, userSessions, nextSession, nextUser>>
    /\ held' = HeldAfter(conn', sent', sid, c, {})

\* ws.on("message"), case "join"
Join(c, sid, uid) ==
    /\ conn[c].state \in Receiving
    /\ LET user == GetUser(sid, uid)
           bound == [conn EXCEPT ![c].sessionId = sid, ![c].userId = uid]
       IN IF user = NullUser
          THEN /\ conn' = [bound EXCEPT ![c].state = "closing"]
               /\ sent' = Send(conn, c, [type |-> "error",
                                         message |-> "Invalid session or user"])
               /\ UNCHANGED <<docs, connections>>
          ELSE /\ TotalEntries < MaxEntries
               /\ conn' = bound
               /\ connections' =
                      LET cs == IF sid \in DOMAIN connections THEN connections
                                ELSE Put(connections, sid, <<>>)
                      IN [cs EXCEPT ![sid] = Append(@, [ws |-> c, userId |-> uid])]
               /\ docs' = GetYDoc(docs, sid)
               /\ sent' = Send(conn, c, [type |-> "init", state |-> docs'[sid],
                                         users |-> GetSessionUsers(sid), role |-> user])
                          \o BroadcastToSession(connections', conn, sid,
                                 [type |-> "user-connected", userId |-> uid, user |-> user], c)
    /\ ev' = [op |-> "join", ws |-> c, sid |-> sid, userId |-> uid]
    /\ pre' = Pre
    /\ UNCHANGED <<sessions, userSessions, nextSession, nextUser>>
    /\ held' = HeldAfter(conn', sent', sid, c, {})

\* ws.on("message"): JSON.parse throws on the frame, or the switch finds no case; the
\* catch logs and the handler returns
Unparsable(c) ==
    /\ conn[c].state \in Receiving
    /\ ev' = [op |-> "unparsable", ws |-> c]
    /\ pre' = Pre
    /\ sent' = <<>>
    /\ UNCHANGED <<held, sessions, userSessions, docs, connections, conn, nextSession, nextUser>>

\* ws.on("message"), case "sync", with the denial closing the transport, as the refused
\* join does, as its mutant
SyncDeniedCloses(c, update) ==
    /\ conn[c].state \in Receiving
    /\ LET sid == conn[c].sessionId
           uid == conn[c].userId
       IN IF ~CanEdit(sid, uid)
          THEN /\ sent' = Send(conn, c, [type |-> "error",
                                message |-> "Permission denied: viewers cannot edit"])
               /\ conn' = [conn EXCEPT ![c].state = "closing"]
               /\ UNCHANGED docs
          ELSE /\ conn' = conn
               /\ IF update = Malformed
                  THEN /\ docs' = GetYDoc(docs, sid)
                       /\ sent' = <<>>
                  ELSE /\ docs' = [GetYDoc(docs, sid) EXCEPT ![sid] = ApplyUpdate(@, update)]
                       /\ sent' = BroadcastToSession(connections, conn, sid,
                                      [type |-> "sync", update |-> update], c)
    /\ ev' = [op |-> "sync", ws |-> c, update |-> update]
    /\ pre' = Pre
    /\ UNCHANGED <<sessions, userSessions, connections, nextSession, nextUser>>
    /\ held' = HeldAfter(conn', sent', conn[c].sessionId, c,
                         IF CanEdit(conn[c].sessionId, conn[c].userId) /\ update \in Updates
                         THEN {update} ELSE {})

\* ws.on("message"), case "sync", with getYDoc called before the permission gate as
\* its mutant
SyncDocBeforeGate(c, update) ==
    /\ conn[c].state \in Receiving
    /\ LET sid == conn[c].sessionId
           uid == conn[c].userId
       IN IF ~CanEdit(sid, uid)
          THEN /\ sent' = Send(conn, c, [type |-> "error",
                                message |-> "Permission denied: viewers cannot edit"])
               /\ docs' = GetYDoc(docs, sid)
          ELSE IF update = Malformed
               THEN /\ docs' = GetYDoc(docs, sid)
                    /\ sent' = <<>>
               ELSE /\ docs' = [GetYDoc(docs, sid) EXCEPT ![sid] = ApplyUpdate(@, update)]
                    /\ sent' = BroadcastToSession(connections, conn, sid,
                                   [type |-> "sync", update |-> update], c)
    /\ ev' = [op |-> "sync", ws |-> c, update |-> update]
    /\ pre' = Pre
    /\ UNCHANGED <<sessions, userSessions, connections, conn, nextSession, nextUser>>
    /\ held' = HeldAfter(conn, sent', conn[c].sessionId, c,
                         IF CanEdit(conn[c].sessionId, conn[c].userId) /\ update \in Updates
                         THEN {update} ELSE {})

\* ws.on("message"), case "sync", with the fan-out placed before the merge as its mutant
SyncRelayBeforeMerge(c, update) ==
    /\ conn[c].state \in Receiving
    /\ LET sid == conn[c].sessionId
           uid == conn[c].userId
       IN IF ~CanEdit(sid, uid)
          THEN /\ sent' = Send(conn, c, [type |-> "error",
                                message |-> "Permission denied: viewers cannot edit"])
               /\ UNCHANGED docs
          ELSE /\ sent' = BroadcastToSession(connections, conn, sid,
                              [type |-> "sync", update |-> update], c)
               /\ docs' = IF update = Malformed
                          THEN GetYDoc(docs, sid)
                          ELSE [GetYDoc(docs, sid) EXCEPT ![sid] = ApplyUpdate(@, update)]
    /\ ev' = [op |-> "sync", ws |-> c, update |-> update]
    /\ pre' = Pre
    /\ UNCHANGED <<sessions, userSessions, connections, conn, nextSession, nextUser>>
    /\ held' = HeldAfter(conn, sent', conn[c].sessionId, c,
                         IF CanEdit(conn[c].sessionId, conn[c].userId) /\ update \in Updates
                         THEN {update} ELSE {})

\* ws.on("message"), case "sync", gated by the role the init frame reported instead of
\* the role the registry holds when the message arrives, as the mutant of Sync
SyncInitRole(c, update) ==
    /\ conn[c].state \in Receiving
    /\ LET sid == conn[c].sessionId
           uid == conn[c].userId
           allowed == held[c].role \in {"owner", "editor"}
       IN /\ IF ~allowed
             THEN /\ sent' = Send(conn, c, [type |-> "error",
                                   message |-> "Permission denied: viewers cannot edit"])
                  /\ UNCHANGED docs
             ELSE IF update = Malformed
                  THEN /\ docs' = GetYDoc(docs, sid)
                       /\ sent' = <<>>
                  ELSE /\ docs' = [GetYDoc(docs, sid) EXCEPT ![sid] = ApplyUpdate(@, update)]
                       /\ sent' = BroadcastToSession(connections, conn, sid,
                                      [type |-> "sync", update |-> update], c)
          /\ held' = HeldAfter(conn, sent', sid, c,
                               IF allowed /\ update \in Updates THEN {update} ELSE {})
    /\ ev' = [op |-> "sync", ws |-> c, update |-> update]
    /\ pre' = Pre
    /\ UNCHANGED <<sessions, userSessions, connections, conn, nextSession, nextUser>>

\* ws.on("message"), case "sync"; Y.applyUpdate throws on an update it cannot decode,
\* before it touches the document, and the catch ends the handler
Sync(c, update) ==
    /\ conn[c].state \in Receiving
    /\ LET sid == conn[c].sessionId
           uid == conn[c].userId
       IN IF ~CanEdit(sid, uid)
          THEN /\ sent' = Send(conn, c, [type |-> "error",
                                message |-> "Permission denied: viewers cannot edit"])
               /\ UNCHANGED docs
          ELSE IF update = Malformed
               THEN /\ docs' = GetYDoc(docs, sid)
                    /\ sent' = <<>>
               ELSE /\ docs' = [GetYDoc(docs, sid) EXCEPT ![sid] = ApplyUpdate(@, update)]
                    /\ sent' = BroadcastToSession(connections, conn, sid,
                                   [type |-> "sync", update |-> update], c)
    /\ ev' = [op |-> "sync", ws |-> c, update |-> update]
    /\ pre' = Pre
    /\ UNCHANGED <<sessions, userSessions, connections, conn, nextSession, nextUser>>
    /\ held' = HeldAfter(conn, sent', conn[c].sessionId, c,
                         IF CanEdit(conn[c].sessionId, conn[c].userId) /\ update \in Updates
                         THEN {update} ELSE {})

\* ws.on("message"), case "awareness", put behind the gate of the sync case as its mutant
AwarenessGated(c, state) ==
    /\ conn[c].state \in Receiving
    /\ sent' = IF CanEdit(conn[c].sessionId, conn[c].userId)
               THEN BroadcastAwareness(connections, conn, conn[c].sessionId,
                                       conn[c].userId, state)
               ELSE Send(conn, c, [type |-> "error",
                                   message |-> "Permission denied: viewers cannot edit"])
    /\ ev' = [op |-> "awareness", ws |-> c, state |-> state]
    /\ pre' = Pre
    /\ UNCHANGED <<held, sessions, userSessions, docs, connections, conn, nextSession, nextUser>>

\* ws.on("message"), case "awareness" -> broadcastAwareness
Awareness(c, state) ==
    /\ conn[c].state \in Receiving
    /\ sent' = BroadcastAwareness(connections, conn, conn[c].sessionId, conn[c].userId, state)
    /\ ev' = [op |-> "awareness", ws |-> c, state |-> state]
    /\ pre' = Pre
    /\ UNCHANGED <<held, sessions, userSessions, docs, connections, conn, nextSession, nextUser>>

\* ws.on("close") with the leaveSession call of line 241 in force, as the mutant of Close
CloseAndLeave(c) ==
    /\ conn[c].state \in Receiving
    /\ LET sid == conn[c].sessionId
           uid == conn[c].userId
           closed == [conn EXCEPT ![c] = [state |-> "closed", sessionId |-> Null,
                                          userId |-> Null]]
       IN /\ conn' = closed
          /\ IF sid # Null /\ uid # Null
             THEN /\ connections' = Unregister(connections, sid, c)
                  /\ sent' = BroadcastToSession(connections', closed, sid,
                                 [type |-> "user-disconnected", userId |-> uid], Null)
                  /\ IF sid \in DOMAIN sessions
                     THEN /\ sessions' = SessionsAfterLeave(sid, uid)
                          /\ userSessions' = Remove(userSessions, uid)
                     ELSE UNCHANGED <<sessions, userSessions>>
             ELSE /\ connections' = connections
                  /\ sent' = <<>>
                  /\ UNCHANGED <<sessions, userSessions>>
    /\ ev' = [op |-> "close", ws |-> c]
    /\ pre' = Pre
    /\ UNCHANGED <<docs, nextSession, nextUser>>
    /\ held' = HeldAfter(conn', <<>>, Null, c, {})

\* ws.on("close") that forgets a session's document once its connection set is empty,
\* as the mutant of Close
CloseDropsDoc(c) ==
    /\ conn[c].state \in Receiving
    /\ LET sid == conn[c].sessionId
           uid == conn[c].userId
           closed == [conn EXCEPT ![c] = [state |-> "closed", sessionId |-> Null,
                                          userId |-> Null]]
       IN /\ conn' = closed
          /\ IF sid # Null /\ uid # Null
             THEN /\ connections' = Unregister(connections, sid, c)
                  /\ sent' = BroadcastToSession(connections', closed, sid,
                                 [type |-> "user-disconnected", userId |-> uid], Null)
                  /\ docs' = IF sid \in DOMAIN connections' /\ connections'[sid] = <<>>
                             THEN Remove(docs, sid)
                             ELSE docs
             ELSE /\ connections' = connections
                  /\ sent' = <<>>
                  /\ docs' = docs
    /\ ev' = [op |-> "close", ws |-> c]
    /\ pre' = Pre
    /\ UNCHANGED <<sessions, userSessions, nextSession, nextUser>>
    /\ held' = HeldAfter(conn', <<>>, Null, c, {})

\* ws.on("close"); the closure's variables are unreachable afterwards
Close(c) ==
    /\ conn[c].state \in Receiving
    /\ LET sid == conn[c].sessionId
           uid == conn[c].userId
           closed == [conn EXCEPT ![c] = [state |-> "closed", sessionId |-> Null,
                                          userId |-> Null]]
       IN /\ conn' = closed
          /\ IF sid # Null /\ uid # Null
             THEN /\ connections' = Unregister(connections, sid, c)
                  /\ sent' = BroadcastToSession(connections', closed, sid,
                                 [type |-> "user-disconnected", userId |-> uid], Null)
             ELSE /\ connections' = connections
                  /\ sent' = <<>>
    /\ ev' = [op |-> "close", ws |-> c]
    /\ pre' = Pre
    /\ UNCHANGED <<sessions, userSessions, docs, nextSession, nextUser>>
    /\ held' = HeldAfter(conn', <<>>, Null, c, {})

\* ------------------------------------------------- CRDTManager (wire.js)
\* connect(sessionId, userId, role) up to new WebSocket(...): the fields are set, the
\* promise is created pending and the transport starts connecting
Connect(c, sid, uid, role) ==
    /\ client[c].ws = "none"
    /\ \A d \in Conns : d < c => client[d].ws # "none"
    /\ client' = [client EXCEPT ![c] = [@ EXCEPT !.sessionId = sid, !.userId = uid,
                                                 !.role = role, !.ws = "connecting",
                                                 !.promise = "pending"]]
    /\ ev' = [op |-> "connect", ws |-> c, was |-> client[c], up |-> upstream[c]]
    /\ pre' = Pre
    /\ sent' = <<>>
    /\ UNCHANGED <<sessions, userSessions, docs, connections, conn, nextSession, nextUser,
                   held, upstream, downstream>>

\* ws.onopen: the join frame is sent
OnOpen(c) ==
    /\ client[c].ws = "connecting"
    /\ conn[c].state = "open"
    /\ client' = [client EXCEPT ![c].ws = "open"]
    /\ upstream' = [upstream EXCEPT ![c] =
                       Append(@, [type |-> "join", sessionId |-> client[c].sessionId,
                                  userId |-> client[c].userId])]
    /\ ev' = [op |-> "onopen", ws |-> c, was |-> client[c], up |-> upstream[c]]
    /\ pre' = Pre
    /\ sent' = <<>>
    /\ UNCHANGED <<sessions, userSessions, docs, connections, conn, nextSession, nextUser,
                   held, downstream>>

\* handleMessage: the manager after the frame.  init: applyState and this.role; sync:
\* applyUpdate; every other frame is only emitted to the listeners.  The observers of
\* the document and the listeners (the editor redraws, the presence list is updated)
\* call no method of the manager that sends.
HandleMessage(mgr, message) ==
    IF message.type = "init"
    THEN [mgr EXCEPT !.doc = @ \cup message.state, !.role = message.role]
    ELSE IF message.type = "sync"
         THEN [mgr EXCEPT !.doc = @ \cup {message.update}]
         ELSE mgr

\* ws.onmessage with an observer of the document that calls sendUpdate, as the mutant of
\* OnMessage
OnMessageEcho(c) ==
    /\ client[c].ws = "open"
    /\ downstream[c] # <<>>
    /\ Head(downstream[c]) # CloseFrame
    /\ LET message == Head(downstream[c])
           handled == HandleMessage(client[c], message)
       IN /\ client' = [client EXCEPT ![c] =
                           IF message.type = "init" /\ handled.promise = "pending"
                           THEN [handled EXCEPT !.promise = "resolved"]
                           ELSE handled]
          /\ upstream' = IF message.type = "sync" /\ handled.role # "viewer"
                         THEN [upstream EXCEPT ![c] = Append(@, message)]
                         ELSE upstream
          /\ ev' = [op |-> "onmessage", ws |-> c, frame |-> message, was |-> client[c],
                    up |-> upstream[c]]
    /\ downstream' = [downstream EXCEPT ![c] = Tail(@)]
    /\ pre' = Pre
    /\ sent' = <<>>
    /\ UNCHANGED <<sessions, userSessions, docs, connections, conn, nextSession, nextUser,
                   held>>

\* ws.onmessage: handleMessage, then resolve on an init frame
OnMessage(c) ==
    /\ client[c].ws = "open"
    /\ downstream[c] # <<>>
    /\ Head(downstream[c]) # CloseFrame
    /\ LET message == Head(downstream[c])
           handled == HandleMessage(client[c], message)
       IN /\ client' = [client EXCEPT ![c] =
                           IF message.type = "init" /\ handled.promise = "pending"
                           THEN [handled EXCEPT !.promise = "resolved"]
                           ELSE handled]
          /\ ev' = [op |-> "onmessage", ws |-> c, frame |-> message, was |-> client[c],
                    up |-> upstream[c]]
    /\ downstream' = [downstream EXCEPT ![c] = Tail(@)]
    /\ pre' = Pre
    /\ sent' = <<>>
    /\ UNCHANGED <<sessions, userSessions, docs, connections, conn, nextSession, nextUser,
                   held, upstream>>

\* ws.onclose after the relay's close frame: "disconnected" is emitted; the promise is
\* not touched
OnClose(c) ==
    /\ client[c].ws = "open"
    /\ downstream[c] # <<>>
    /\ Head(downstream[c]) = CloseFrame
    /\ client' = [client EXCEPT ![c].ws = "closed"]
    /\ downstream' = [downstream EXCEPT ![c] = <<>>]
    /\ ev' = [op |-> "onclose", ws |-> c, was |-> client[c], up |-> upstream[c]]
    /\ pre' = Pre
    /\ sent' = <<>>
    /\ UNCHANGED <<sessions, userSessions, docs, connections, conn, nextSession, nextUser,
                   held, upstream>>

\* ws.onerror, then ws.onclose: the transport fails; reject settles a pending promise
\* and does nothing to a settled one
OnError(c) ==
    /\ client[c].ws \in {"connecting", "open"}
    /\ conn[c].state \in Receiving
    /\ client' = [client EXCEPT ![c].ws = "closed",
                                ![c].promise = IF @ = "pending" THEN "rejected" ELSE @]
    /\ downstream' = [downstream EXCEPT ![c] = <<>>]
    /\ ev' = [op |-> "onerror", ws |-> c, was |-> client[c], up |-> upstream[c]]
    /\ pre' = Pre
    /\ sent' = <<>>
    /\ UNCHANGED <<sessions, userSessions, docs, connections, conn, nextSession, nextUser,
                   held, upstream>>

\* sendUpdate: the frames in flight q after the call.  Y.encodeStateAsUpdate(this.doc)
\* carries the whole document; the relay skips the part it holds, so the frame is
\* followed by the update of the edit that caused the call.
SendUpdate(mgr, q, update) ==
    IF mgr.ws # "open" THEN q
    ELSE IF mgr.role = "viewer" THEN q
    ELSE Append(q, [type |-> "sync", update |-> update])

\* addGate, updateGate, deleteGate, addWire, deleteWire, clearCircuit without the
\* role test, as the mutant of Mutate
MutateUngated(c, update, found) ==
    /\ Len(upstream[c]) < MaxQueue
    /\ LET mgr == client[c]
           result == found
           edited == [mgr EXCEPT !.doc = @ \cup {update}]
       IN /\ client' = IF result THEN [client EXCEPT ![c] = edited] ELSE client
          /\ upstream' = IF result
                         THEN [upstream EXCEPT ![c] = SendUpdate(edited, @, update)]
                         ELSE upstream
          /\ ev' = [op |-> "mutate", ws |-> c, update |-> update, found |-> found,
                    result |-> result, was |-> mgr, up |-> upstream[c]]
    /\ pre' = Pre
    /\ sent' = <<>>
    /\ UNCHANGED <<sessions, userSessions, docs, connections, conn, nextSession, nextUser,
                   held, downstream>>

\* addGate, updateGate, deleteGate, addWire, deleteWire, clearCircuit: false for a
\* viewer, false when updateGate or deleteWire does not find its target, else the
\* transaction on the document, sendUpdate and true
Mutate(c, update, found) ==
    /\ Len(upstream[c]) < MaxQueue
    /\ LET mgr == client[c]
           result == mgr.role # "viewer" /\ found
           edited == [mgr EXCEPT !.doc = @ \cup {update}]
       IN /\ client' = IF result THEN [client EXCEPT ![c] = edited] ELSE client
          /\ upstream' = IF result
                         THEN [upstream EXCEPT ![c] = SendUpdate(edited, @, update)]
                         ELSE upstream
          /\ ev' = [op |-> "mutate", ws |-> c, update |-> update, found |-> found,
                    result |-> result, was |-> mgr, up |-> upstream[c]]
    /\ pre' = Pre
    /\ sent' = <<>>
    /\ UNCHANGED <<sessions, userSessions, docs, connections, conn, nextSession, nextUser,
                   held, downstream>>

\* sendAwareness (the editor calls it on every mouse move)
SendAwareness(c, state) ==
    /\ Len(upstream[c]) < MaxQueue
    /\ upstream' = IF client[c].ws # "open" THEN upstream
                   ELSE [upstream EXCEPT ![c] =
                            Append(@, [type |-> "awareness", state |-> state])]
    /\ ev' = [op |-> "sendAwareness", ws |-> c, was |-> client[c], up |-> upstream[c]]
    /\ pre' = Pre
    /\ sent' = <<>>
    /\ UNCHANGED <<sessions, userSessions, docs, connections, conn, nextSession, nextUser,
                   held, client, downstream>>

\* ------------------------------------------- the relay as the clients drive it
\* no transport has MaxQueue frames waiting for its client
Room == \A d \in Conns : Len(downstream[d]) < MaxQueue

\* wss.on("connection") for a client that is connecting
Accept(c) ==
    /\ client[c].ws = "connecting"
    /\ Connection(c)
    /\ UNCHANGED clientVars

\* ws.on("message"): the frame a client sent is parsed and its case is run
Receive(c) ==
    /\ upstream[c] # <<>>
    /\ Room
    /\ LET message == Head(upstream[c])
       IN \/ message.type = "join" /\ Join(c, message.sessionId, message.userId)
          \/ message.type = "sync" /\ Sync(c, message.update)
          \/ message.type = "awareness" /\ Awareness(c, message.state)
    /\ upstream' = [upstream EXCEPT ![c] = Tail(@)]
    /\ downstream' = Deliver(downstream, sent', conn, conn')
    /\ UNCHANGED client

\* ws.on("close") once the client's end is closed; frames still in flight are lost
Hangup(c) ==
    /\ client[c].ws = "closed"
    /\ Close(c)
    /\ upstream' = [upstream EXCEPT ![c] = <<>>]
    /\ downstream' = Deliver(downstream, sent', conn, conn')
    /\ UNCHANGED client

\* POST /api/sessions
RestCreate ==
    /\ CreateSession("K3F9QX")
    /\ UNCHANGED clientVars

\* POST /api/sessions/:sessionId/join
RestJoin(sid, role) ==
    /\ Room
    /\ JoinSession(sid, role, Undefined)
    /\ downstream' = Deliver(downstream, sent', conn, conn')
    /\ UNCHANGED <<client, upstream>>

\* identifiers a socket client can put in a join message
IssuedSessions == 1..(nextSession - 1)
IssuedUsers == 1..(nextUser - 1)
JoinInputs == (IssuedSessions \X IssuedUsers) \cup {<<Null, Null>>}

\* The registry under every request: any session id, user id, role and invite code.
NextRegistry ==
    \/ \E code \in Codes : CreateSession(code)
           /\ UNCHANGED clientVars
    \/ \E sid \in SessionIds, role \in RoleInputs, code \in CodeInputs :
           JoinSession(sid, role, code)
           /\ UNCHANGED clientVars
    \/ \E sid \in SessionIds, uid \in UserIds : LeaveSession(sid, uid)
           /\ UNCHANGED clientVars
    \/ \E sid \in SessionIds, target \in UserIds, newRole \in RoleInputs,
          requester \in UserIds : UpdateUserRole(sid, target, newRole, requester)
           /\ UNCHANGED clientVars
    \/ \E sid \in SessionIds \cup {Null}, uid \in UserIds \cup {Null} : CanEditCall(sid, uid)
           /\ UNCHANGED clientVars
    \/ \E sid \in SessionIds : GetSessionCall(sid)
           /\ UNCHANGED clientVars
    \/ \E code \in Codes : GetSessionByInviteCodeCall(code)
           /\ UNCHANGED clientVars

SpecRegistry == Init /\ [][NextRegistry]_vars

\* The relay: every socket event on every transport, interleaved with the registry
\* requests that change the registry.  A request changes it only through the session
\* it names, the role it ends up storing and the member it removes, so one request
\* per such effect is drawn here; SpecRegistry draws the others and the refused ones.
Next ==
    \/ \E code \in {"K3F9QX"} : CreateSession(code)
           /\ UNCHANGED clientVars
    \/ \E sid \in DOMAIN sessions, role \in {"viewer", "editor"} :
           JoinSession(sid, role, Undefined)
           /\ UNCHANGED clientVars
    \/ \E sid \in DOMAIN sessions, uid \in IssuedUsers :
           GetUser(sid, uid) # NullUser /\ LeaveSession(sid, uid)
           /\ UNCHANGED clientVars
    \/ \E sid \in DOMAIN sessions, target \in IssuedUsers, newRole \in {"viewer", "editor"},
          requester \in IssuedUsers :
           UpdateUserRoleError(sid, target, requester) = ""
               /\ UpdateUserRole(sid, target, newRole, requester)
           /\ UNCHANGED clientVars
    \/ \E c \in Conns : Connection(c)
           /\ UNCHANGED clientVars
    \/ \E c \in Conns, p \in JoinInputs : Join(c, p[1], p[2])
           /\ UNCHANGED clientVars
    \/ \E c \in Conns : Unparsable(c)
           /\ UNCHANGED clientVars
    \/ \E c \in Conns, update \in UpdateInputs : Sync(c, update)
           /\ UNCHANGED clientVars
    \/ \E c \in Conns, state \in AwarenessStates : Awareness(c, state)
           /\ UNCHANGED clientVars
    \/ \E c \in Conns : Close(c)
           /\ UNCHANGED clientVars

Spec == Init /\ [][Next]_vars

\* The clients and the relay together: every client connects once with identifiers
\* the relay has issued and the role the REST response reports for them (the page
\* passes data.role), edits and moves its pointer at any time, and the frames of both
\* directions are delivered in order.
NextClient ==
    \/ RestCreate
    \/ \E sid \in DOMAIN sessions, role \in {"viewer", "editor"} : RestJoin(sid, role)
    \/ \E c \in Conns, p \in JoinInputs : Connect(c, p[1], p[2], GetUser(p[1], p[2]))
    \/ \E c \in Conns : Accept(c)
    \/ \E c \in Conns : OnOpen(c)
    \/ \E c \in Conns : Receive(c)
    \/ \E c \in Conns : OnMessage(c)
    \/ \E c \in Conns : OnClose(c)
    \/ \E c \in Conns : OnError(c)
    \/ \E c \in Conns : Hangup(c)
    \/ \E c \in Conns, update \in Updates, found \in BOOLEAN : Mutate(c, update, found)
    \/ \E c \in Conns, state \in AwarenessStates : SendAwareness(c, state)

\* Frames in flight are delivered and the handlers they are for run: the transport is
\* reliable and ordered while it is up, and each end's event loop runs every handler
\* that is due.  The relay handles a frame however often it had to wait for room in
\* the model's bounded queues, hence the strong fairness of Receive.  Nothing obliges
\* a client to connect, to edit or to fail.
FairDelivery ==
    \A c \in Conns :
        /\ WF_vars(Accept(c))
        /\ WF_vars(OnOpen(c))
        /\ SF_vars(Receive(c))
        /\ WF_vars(OnMessage(c))
        /\ WF_vars(OnClose(c))
        /\ WF_vars(Hangup(c))

SpecClient == Init /\ [][NextClient]_vars /\ FairDelivery

\* ------------------------------------------------------------ properties
\* the role of a user in a sessions map, NullUser when it has none
RoleIn(ss, sid, uid) ==
    IF sid \in DOMAIN ss /\ uid \in DOMAIN ss[sid].users THEN ss[sid].users[uid] ELSE NullUser

Owners(sid) == {u \in DOMAIN sessions[sid].users : sessions[sid].users[u] = "owner"}

\* the transports registered in a session's connection set
Registered(sid) ==
    IF sid \in DOMAIN connections
    THEN {connections[sid][i].ws : i \in 1..Len(connections[sid])}
    ELSE {}

\* Joined: an open transport bound to the session
Joined(d, sid) == sid # Null /\ conn[d].state = "open" /\ conn[d].sessionId = sid

FrameTypes(out) == {out[i].frame.type : i \in 1..Len(out)}
Recipients(out) == {out[i].to : i \in 1..Len(out)}
Frames(out) == {out[i] : i \in 1..Len(out)}

\* the session and user the handler of the last socket message found bound
SenderSession == pre.conn[ev.ws].sessionId
SenderUser == pre.conn[ev.ws].userId
SenderRole == RoleIn(pre.sessions, SenderSession, SenderUser)

\* C1: every live session has exactly one user whose role is owner.
ExactlyOneOwner == \A sid \in DOMAIN sessions : Cardinality(Owners(sid)) = 1

\* C2: a sync received on a transport whose bound user is a viewer is not merged into
\* any document and puts no sync frame on the wire.
ViewerSyncNeverMerged ==
    (ev.op = "sync" /\ SenderRole = "viewer")
    => (docs = pre.docs /\ "sync" \notin FrameTypes(sent))

\* C2 witness: a viewer's sync was answered with the denial while another transport
\* of the same session was registered and open to receive a broadcast.
ViewerSyncDenied ==
    /\ ev.op = "sync"
    /\ SenderRole = "viewer"
    /\ \E d \in Conns \ {ev.ws} : Joined(d, SenderSession) /\ d \in Registered(SenderSession)
    /\ sent = <<[to |-> ev.ws, frame |-> [type |-> "error",
                   message |-> "Permission denied: viewers cannot edit"]]>>

\* The frames a handler relays, and the session whose connection set it fans them to.
RelayedTypes == {"sync", "awareness", "user-connected", "user-disconnected", "user-joined"}
RelaySession ==
    IF ev.op \in {"sync", "awareness", "close"} THEN SenderSession
    ELSE IF ev.op \in {"join", "joinSession"} THEN ev.sid
    ELSE Null

\* C3: session isolation: a frame relayed for session A (sync, awareness,
\* user-connected, user-disconnected, user-joined) reaches no transport that is
\* joined to another session B.
SessionIsolation ==
    \A i \in 1..Len(sent) :
        sent[i].frame.type \in RelayedTypes => conn[sent[i].to].sessionId = RelaySession

\* C4: an accepted sync is delivered to every other Joined transport of the
\* sender's session, whatever its user's role, and never to the sender.
SyncReachesOthersNotSender ==
    (ev.op = "sync" /\ SenderRole \in {"owner", "editor"} /\ ev.update \in Updates)
    => /\ \A d \in Conns \ {ev.ws} :
              Joined(d, SenderSession)
              => [to |-> d, frame |-> [type |-> "sync", update |-> ev.update]] \in Frames(sent)
       /\ ev.ws \notin Recipients(sent)

\* C4 witness: an accepted sync was delivered to a Joined transport whose user is a
\* viewer.
SyncDeliveredToViewer ==
    /\ ev.op = "sync"
    /\ SenderRole \in {"owner", "editor"}
    /\ \E d \in Conns \ {ev.ws} :
           /\ Joined(d, SenderSession)
           /\ GetUser(conn[d].sessionId, conn[d].userId) = "viewer"
           /\ [to |-> d, frame |-> [type |-> "sync", update |-> ev.update]] \in Frames(sent)

\* C5: joinSession on a live session with a presented invite code that differs from
\* the session's returns "Invalid invite code" and adds no user, whatever the code.
WrongInviteCodeRejected ==
    (/\ ev.op = "joinSession"
     /\ ev.sid \in DOMAIN pre.sessions
     /\ ev.inviteCode # Undefined
     /\ ev.inviteCode # pre.sessions[ev.sid].inviteCode)
    => (ev.error = "Invalid invite code" /\ sessions = pre.sessions)

\* C6: no two live sessions have the same invite code.
InviteCodesUnique ==
    \A a \in DOMAIN sessions, b \in DOMAIN sessions :
        a # b => sessions[a].inviteCode # sessions[b].inviteCode

\* C7 as stated: a successful joinSession grants editor only when the requested role
\* is exactly editor, and viewer for every other requested role.
JoinGrantsViewerUnlessEditor ==
    (ev.op = "joinSession" /\ ev.error = "")
    => /\ ev.granted = IF ev.role = "editor" THEN "editor" ELSE "viewer"
       /\ GetUser(ev.sid, ev.userId) = ev.granted

\* C7 amended: a successful joinSession grants viewer only when the requested role is
\* exactly viewer, and editor for every other requested role (editor, owner, absent
\* or any other value); the granted role is the one stored for the new user.
JoinGrantsEditorUnlessViewer ==
    (ev.op = "joinSession" /\ ev.error = "")
    => /\ ev.granted = IF ev.role = "viewer" THEN "viewer" ELSE "editor"
       /\ GetUser(ev.sid, ev.userId) = ev.granted

\* C7 witness: a join that asked for owner was granted editor and stored as editor.
JoinAskedOwnerGrantedEditor ==
    /\ ev.op = "joinSession"
    /\ ev.error = ""
    /\ ev.role = "owner"
    /\ ev.granted = "editor"
    /\ GetUser(ev.sid, ev.userId) = "editor"

\* C8: once leaveSession has removed the last user of a session, getSession returns
\* null for its id in every later state and a later joinSession on it fails with
\* "Session not found": the leave that empties the session removes it, and an id
\* that was issued and is not live stays not live through every request.
ReclaimedNeverResurrected ==
    /\ (ev.op = "leaveSession" /\ ev.sid \in DOMAIN pre.sessions
            /\ DOMAIN pre.sessions[ev.sid].users = {ev.userId})
       => GetSession(ev.sid) = NotFound
    /\ \A sid \in 1..(pre.nextSession - 1) :
           sid \notin DOMAIN pre.sessions
           => /\ GetSession(sid) = NotFound
              /\ (ev.op = "joinSession" /\ ev.sid = sid)
                 => (ev.error = "Session not found" /\ sessions = pre.sessions)

\* C8 witness: a join named a session id that leaveSession had reclaimed, and was
\* refused.
JoinOnReclaimedRefused ==
    /\ ev.op = "joinSession"
    /\ ev.sid \in 1..(pre.nextSession - 1)
    /\ ev.sid \notin DOMAIN pre.sessions
    /\ ev.error = "Session not found"

\* C9: updateUserRole by the owner on the owner itself returns "Cannot change owner
\* role" for every new role and changes no role.
OwnerCannotChangeSelf ==
    (/\ ev.op = "updateUserRole"
     /\ ev.target = ev.requester
     /\ RoleIn(pre.sessions, ev.sid, ev.requester) = "owner")
    => (ev.error = "Cannot change owner role" /\ sessions = pre.sessions)

\* C9 witness: the owner asked to make itself a viewer and was refused.
OwnerChangeRefused ==
    /\ ev.op = "updateUserRole"
    /\ ev.target = ev.requester
    /\ ev.newRole = "viewer"
    /\ RoleIn(pre.sessions, ev.sid, ev.requester) = "owner"
    /\ GetUser(ev.sid, ev.requester) = "owner"

\* C10: updateUserRole whose requester is not the owner of the session (an editor, a
\* viewer, a non-member) returns an error and changes no role in any session.
NonOwnerCannotChangeRoles ==
    (ev.op = "updateUserRole" /\ RoleIn(pre.sessions, ev.sid, ev.requester) # "owner")
    => (ev.error # "" /\ sessions = pre.sessions)

\* C10 witness: an editor asked to change the role of a member of its session and
\* was refused.
EditorRefused ==
    /\ ev.op = "updateUserRole"
    /\ RoleIn(pre.sessions, ev.sid, ev.requester) = "editor"
    /\ RoleIn(pre.sessions, ev.sid, ev.target) # NullUser
    /\ ev.error = "Only owner can change roles"

\* C11: a successful updateUserRole stores editor or viewer for the target (viewer only
\* when viewer was asked, never owner) and changes nothing else: every other user of
\* the session and every other session is as the call found it.
UpdateUserRoleFrame ==
    (ev.op = "updateUserRole" /\ ev.error = "")
    => /\ GetUser(ev.sid, ev.target) \in {"editor", "viewer"}
       /\ GetUser(ev.sid, ev.target) = "viewer" <=> ev.newRole = "viewer"
       /\ userSessions = pre.userSessions
       /\ DOMAIN sessions = DOMAIN pre.sessions
       /\ \A sid \in DOMAIN sessions :
              /\ sessions[sid].ownerId = pre.sessions[sid].ownerId
              /\ sessions[sid].inviteCode = pre.sessions[sid].inviteCode
              /\ DOMAIN sessions[sid].users = DOMAIN pre.sessions[sid].users
              /\ \A uid \in DOMAIN sessions[sid].users :
                     (sid # ev.sid \/ uid # ev.target)
                     => sessions[sid].users[uid] = pre.sessions[sid].users[uid]

\* C11 witness: the owner asked to make a viewer an owner; the viewer became an editor
\* and the requester is still the owner.
AskedOwnerStoredEditor ==
    /\ ev.op = "updateUserRole"
    /\ ev.error = ""
    /\ ev.newRole = "owner"
    /\ RoleIn(pre.sessions, ev.sid, ev.target) = "viewer"
    /\ GetUser(ev.sid, ev.target) = "editor"
    /\ GetUser(ev.sid, ev.requester) = "owner"

\* the join message handled last named a member of a live session
JoinAccepted == ev.op = "join" /\ RoleIn(pre.sessions, ev.sid, ev.userId) # NullUser

\* the sync message handled last passed the permission gate and was merged
SyncAccepted ==
    ev.op = "sync" /\ SenderRole \in {"owner", "editor"} /\ ev.update \in Updates

\* the sync message handled last was stopped by the permission gate
SyncDenied == ev.op = "sync" /\ SenderRole \notin {"owner", "editor"}

SenderJoined == pre.conn[ev.ws].state = "open" /\ SenderSession # Null

\* the awareness frame the last handler fans out
AwarenessFrame == [type |-> "awareness", userId |-> SenderUser, state |-> ev.state]

\* C13 as stated: an awareness message from a Joined transport is delivered as a
\* (userId, state) frame to every other Joined transport of the session and is not
\* delivered to the transport that sent it.
AwarenessReachesOthersNotSender ==
    (ev.op = "awareness" /\ SenderJoined)
    => /\ \A d \in Conns \ {ev.ws} :
              Joined(d, SenderSession) => [to |-> d, frame |-> AwarenessFrame] \in Frames(sent)
       /\ ev.ws \notin Recipients(sent)

\* C13 amended: an awareness message from a Joined transport is delivered as a
\* (userId, state) frame to every Joined transport of the session, the transport
\* that sent it included.
AwarenessReachesAllJoined ==
    (ev.op = "awareness" /\ SenderJoined)
    => \A d \in Conns :
           Joined(d, SenderSession) => [to |-> d, frame |-> AwarenessFrame] \in Frames(sent)

\* C13 witness: a Joined transport sent awareness; another Joined transport of the
\* session received the frame and so did the sender.
AwarenessEchoedToSender ==
    /\ ev.op = "awareness"
    /\ SenderJoined
    /\ \E d \in Conns \ {ev.ws} :
           Joined(d, SenderSession) /\ [to |-> d, frame |-> AwarenessFrame] \in Frames(sent)
    /\ [to |-> ev.ws, frame |-> AwarenessFrame] \in Frames(sent)

\* the frames a successful join sends: the requester's init frame, the others' notice
InitFrame ==
    [type |-> "init", state |-> docs[ev.sid], users |-> pre.sessions[ev.sid].users,
     role |-> RoleIn(pre.sessions, ev.sid, ev.userId)]
UserConnectedFrame ==
    [type |-> "user-connected", userId |-> ev.userId,
     user |-> RoleIn(pre.sessions, ev.sid, ev.userId)]

\* C14: a join message that names a member of a live session, handled on a transport
\* the relay has not closed, leaves the transport Joined to that session as that user
\* and registered in the session's connection set; the first frame sent is the
\* requester's init frame (the document snapshot, the session's users, the user's
\* role), it is the only frame the requester gets, and every frame after it is the
\* user-connected notice, which every other Joined transport of the session gets.
JoinRegistersInitThenNotifies ==
    (JoinAccepted /\ pre.conn[ev.ws].state = "open")
    => /\ Joined(ev.ws, ev.sid)
       /\ conn[ev.ws].userId = ev.userId
       /\ ev.ws \in Registered(ev.sid)
       /\ Len(sent) >= 1
       /\ sent[1] = [to |-> ev.ws, frame |-> InitFrame]
       /\ \A i \in 2..Len(sent) : sent[i].to # ev.ws /\ sent[i].frame = UserConnectedFrame
       /\ \A d \in Conns \ {ev.ws} :
              Joined(d, ev.sid)
              => \E i \in 2..Len(sent) : sent[i] = [to |-> d, frame |-> UserConnectedFrame]

\* C14 witness: a transport joined a session in which a document with a merged update
\* and another Joined transport were waiting; it got the init frame first and the
\* other transport got the notice after it.
JoinedAndAnnounced ==
    /\ JoinAccepted
    /\ pre.conn[ev.ws].state = "open"
    /\ Len(sent) >= 2
    /\ sent[1] = [to |-> ev.ws, frame |-> InitFrame]
    /\ InitFrame.state # {}
    /\ \E d \in Conns \ {ev.ws} :
           Joined(d, ev.sid) /\ sent[2] = [to |-> d, frame |-> UserConnectedFrame]

\* the transports registered in a session's set of the registry cs
RegisteredIn(cs, sid) ==
    IF sid \in DOMAIN cs THEN {cs[sid][i].ws : i \in 1..Len(cs[sid])} ELSE {}

\* the join message handled last named an unknown session or a non-member
JoinRefused == ev.op = "join" /\ RoleIn(pre.sessions, ev.sid, ev.userId) = NullUser

\* the last event came from a transport the relay had closed for a failed join and
\* that no join had ever registered (entries leave the registry only at the close event)
OnlyEverRefused ==
    /\ ev.op \in {"join", "sync", "awareness", "close"}
    /\ pre.conn[ev.ws].state = "closing"
    /\ \A sid \in DOMAIN pre.connections : ev.ws \notin RegisteredIn(pre.connections, sid)

\* C15: a join message naming an unknown session or a non-member is answered with an
\* error frame, the relay closes the transport and adds it to no connection set; and
\* nothing that transport does afterwards is handled as coming from a Joined
\* connection: it is registered in no set and nothing is fanned out on its behalf.
FailedJoinNeverJoined ==
    /\ JoinRefused
       => /\ conn[ev.ws].state = "closing"
          /\ connections = pre.connections
          /\ pre.conn[ev.ws].state = "open"
             => sent = <<[to |-> ev.ws, frame |-> [type |-> "error",
                            message |-> "Invalid session or user"]]>>
    /\ OnlyEverRefused
       => /\ \A sid \in DOMAIN connections : ev.ws \notin Registered(sid)
          /\ Recipients(sent) \subseteq {ev.ws}

\* C16: a failed join or a denied sync puts a frame on the wire for the offending
\* transport only, and the close of a transport whose joins all failed puts no frame
\* on the wire at all.
ErrorReachesOffenderOnly ==
    /\ (JoinRefused \/ SyncDenied)
       => Recipients(sent) \subseteq {ev.ws}
    /\ (ev.op = "close" /\ OnlyEverRefused) => sent = <<>>

\* C17: when a transport that a join had registered closes, no session's connection
\* set holds an entry for it afterwards, and every transport still Joined to the
\* session it was joined to gets the user-disconnected notice.
CloseUnregistersAndNotifies ==
    (/\ ev.op = "close"
     /\ \E sid \in DOMAIN pre.connections : ev.ws \in RegisteredIn(pre.connections, sid))
    => /\ \A sid \in DOMAIN connections : ev.ws \notin Registered(sid)
       /\ \A d \in Conns \ {ev.ws} :
              Joined(d, SenderSession)
              => [to |-> d, frame |-> [type |-> "user-disconnected", userId |-> SenderUser]]
                     \in Frames(sent)

\* C18: a transport is registered in at most one session's connection set.
HandleInOneSession ==
    \A c \in Conns : Cardinality({sid \in DOMAIN connections : c \in Registered(sid)}) <= 1

\* the last handler fanned a frame out to a session's connection set
Relayed ==
    \/ SyncAccepted
    \/ JoinAccepted
    \/ ev.op = "awareness"
    \/ ev.op = "joinSession" /\ ev.error = ""
    \/ ev.op = "close" /\ SenderSession # Null /\ SenderUser # Null

\* the transport the fan-out leaves out, Null when it leaves none out
ExcludedWs == IF ev.op \in {"sync", "join"} THEN ev.ws ELSE Null

\* the positions of the relayed frames addressed to d
RelayedTo(d) == {i \in 1..Len(sent) : sent[i].to = d /\ sent[i].frame.type \in RelayedTypes}

\* C19: for every relayed message, each open transport registered in the session,
\* other than the excluded sender, gets the frame exactly once.
DeliveredExactlyOnce ==
    Relayed
    => \A d \in Conns \ {ExcludedWs} :
           (conn[d].state = "open" /\ d \in Registered(RelaySession))
           => Cardinality(RelayedTo(d)) = 1

\* C20: a transport close changes nothing in the session registry: sessions and the
\* user index are as the close event found them, so the closing transport's user is
\* still a member of its session with the same role, the session is still live, and a
\* join naming the same (sessionId, userId) still passes the membership test.
CloseKeepsRegistry ==
    ev.op = "close"
    => /\ sessions = pre.sessions
       /\ userSessions = pre.userSessions
       /\ GetUser(SenderSession, SenderUser) = RoleIn(pre.sessions, SenderSession, SenderUser)

\* C20 witness: a Joined transport whose user is the only member of its session
\* closed, and the user is still a member of the live session.
JoinedClosedStillMember ==
    /\ ev.op = "close"
    /\ SenderJoined
    /\ ev.ws \in RegisteredIn(pre.connections, SenderSession)
    /\ SenderSession \in DOMAIN sessions
    /\ DOMAIN sessions[SenderSession].users = {SenderUser}
    /\ SenderUser \in DOMAIN userSessions

\* the last message came from a transport that no join had registered
NeverRegistered ==
    /\ pre.conn[ev.ws].state \in Receiving
    /\ \A sid \in DOMAIN pre.connections : ev.ws \notin RegisteredIn(pre.connections, sid)

\* C21: a sync or awareness message received on a transport that has not completed a
\* join changes no document, no connection set and no session record, puts no frame
\* on the wire for another transport and leaves the transport as it was.
UnjoinedMessageIgnored ==
    (ev.op \in {"sync", "awareness"} /\ NeverRegistered)
    => /\ docs = pre.docs
       /\ connections = pre.connections
       /\ sessions = pre.sessions
       /\ conn = pre.conn
       /\ Recipients(sent) \subseteq {ev.ws}

\* the last event was a frame the relay drops: one it cannot parse, or a sync whose
\* update the document engine rejects
Dropped == ev.op = "unparsable" \/ (ev.op = "sync" /\ ev.update = Malformed)

\* C22: an unparsable frame, or a sync whose update the engine rejects, is dropped:
\* sessions, documents and connection sets are as the handler found them, no frame
\* goes to another transport, and every transport, the sender's included, keeps its
\* state and its binding.
MalformedDropped ==
    Dropped
    => /\ sessions = pre.sessions
       /\ docs = pre.docs
       /\ connections = pre.connections
       /\ conn = pre.conn
       /\ Recipients(sent) \subseteq {ev.ws}

\* C22 witness: a Joined editor or owner sent a sync the engine rejected while another
\* transport was Joined to the session; nothing went out and the sender is still
\* Joined and registered.
RejectedUpdateDropped ==
    /\ ev.op = "sync"
    /\ ev.update = Malformed
    /\ SenderRole \in {"owner", "editor"}
    /\ \E d \in Conns \ {ev.ws} : Joined(d, SenderSession)
    /\ sent = <<>>
    /\ Joined(ev.ws, SenderSession)
    /\ ev.ws \in Registered(SenderSession)

\* C23 as stated: a document exists for a session id if and only if a session with
\* that id has been created, a session nobody connected to yet included.
DocIffSessionCreated == DOMAIN docs = IssuedSessions

\* C23 amended: a document exists for a session id if and only if a join naming that
\* session has been accepted; so no document exists for an id that was never a
\* session, and a created session nobody connected to yet has none.
DocIffSessionJoined ==
    /\ DOMAIN docs \subseteq IssuedSessions
    /\ DOMAIN docs = DOMAIN connections

\* C23 witness: a live session nobody connected to has no document, while the document
\* of a session that was joined and then reclaimed is still there.
DocLazyAndKept ==
    /\ \E sid \in DOMAIN sessions : sid \notin DOMAIN docs
    /\ \E sid \in DOMAIN docs : sid \notin DOMAIN sessions

\* C24: canEdit returns true exactly when the session is live, the user is a member of
\* it and the user's role is owner or editor; false for a viewer, a non-member, an
\* unknown or a reclaimed session.
CanEditIffEditorOrOwner ==
    ev.op = "canEdit"
    => ev.result = (/\ ev.sid \in DOMAIN sessions
                    /\ ev.userId \in DOMAIN sessions[ev.sid].users
                    /\ sessions[ev.sid].users[ev.userId] \in {"owner", "editor"})

\* C24 witness: canEdit answered true for an editor of a live session.
CanEditEditor ==
    /\ ev.op = "canEdit"
    /\ ev.result = TRUE
    /\ RoleIn(sessions, ev.sid, ev.userId) = "editor"

\* the members of all live sessions
Members(ss) == UNION {DOMAIN ss[sid].users : sid \in DOMAIN ss}

NoEmptySession ==
    /\ \A sid \in DOMAIN sessions : DOMAIN sessions[sid].users # {}
    /\ (ev.op = "getSession" /\ ev.result # NotFound)
       => DOMAIN ev.result.users # {}
    /\ (ev.op = "getSessionByInviteCode" /\ ev.result # Null)
       => (ev.result \in DOMAIN sessions /\ DOMAIN sessions[ev.result].users # {})
    /\ (ev.op = "joinSession" /\ ev.error = "")
       => DOMAIN pre.sessions[ev.sid].users # {}

\* C26 witness: getSession was asked for a session whose last user has left and
\* returned null.
EmptiedSessionNotFound ==
    /\ ev.op = "getSession"
    /\ ev.sid \in IssuedSessions
    /\ ev.sid \notin DOMAIN sessions
    /\ ev.result = NotFound

\* C27: no update is lost between snapshot and subscription: a transport that was
\* handed the init frame of a session and has stayed writable holds, in that snapshot,
\* the sync frames delivered to it since and its own accepted updates, every update
\* merged into the session's document.
NoUpdateLost ==
    \A c \in Conns : \A sid \in held[c].joined :
        /\ sid \in DOMAIN docs
        /\ \A u \in docs[sid] : <<sid, u>> \in held[c].updates

\* C27 witness: an update that was not in the document when a transport joined was
\* merged afterwards and that transport holds it.
LaterUpdateHeld ==
    /\ SyncAccepted
    /\ ev.update \notin pre.docs[SenderSession]
    /\ \E d \in Conns \ {ev.ws} :
           /\ SenderSession \in held[d].joined
           /\ <<SenderSession, ev.update>> \in held[d].updates

\* C28: merge precedes fan-out: every sync frame put on the wire carries an update that
\* is merged into the document of the session its recipient is joined to, so no
\* transport holds an update the document of its session lacks.
MergePrecedesFanOut ==
    \A i \in 1..Len(sent) :
        sent[i].frame.type = "sync"
        => /\ conn[sent[i].to].sessionId \in DOMAIN docs
           /\ sent[i].frame.update \in docs[conn[sent[i].to].sessionId]

\* C29: a sync from a Joined transport that the permission gate denies is answered
\* with exactly one frame, the error frame to the sender; the transport is not closed
\* and stays Joined and registered, and nothing else changes, so the session's later
\* sync and awareness frames, which go to every open registered transport that is
\* not the excluded sender, go to it too.
DeniedSyncKeepsJoined ==
    /\ (SyncDenied /\ SenderJoined)
       => /\ sent = <<[to |-> ev.ws, frame |-> [type |-> "error",
                         message |-> "Permission denied: viewers cannot edit"]]>>
          /\ conn = pre.conn
          /\ connections = pre.connections
          /\ Joined(ev.ws, SenderSession)
          /\ ev.ws \in Registered(SenderSession)
    /\ (SyncAccepted \/ ev.op = "awareness")
       => \A d \in Conns \ {ExcludedWs} :
              (conn[d].state = "open" /\ d \in Registered(RelaySession))
              => d \in Recipients(sent)

\* C29 witness: a Joined viewer's sync was denied with the one error frame and the
\* viewer's transport is still open, Joined and registered.
DeniedViewerStillJoined ==
    /\ SyncDenied
    /\ SenderJoined
    /\ SenderRole = "viewer"
    /\ Len(sent) = 1
    /\ sent[1].to = ev.ws
    /\ conn[ev.ws].state = "open"
    /\ ev.ws \in Registered(SenderSession)

\* C30: awareness is relayed without a permission check and without storage: whatever
\* the role of the sender's user, a viewer's included, the frame goes to every open
\* transport registered in the sender's session, and the handler leaves every
\* document, every session record and every connection set as it found them.
AwarenessUngatedUnstored ==
    ev.op = "awareness"
    => /\ docs = pre.docs
       /\ sessions = pre.sessions
       /\ connections = pre.connections
       /\ \A d \in Conns :
              (conn[d].state = "open" /\ d \in Registered(SenderSession))
              => [to |-> d, frame |-> AwarenessFrame] \in Frames(sent)
       /\ \A i \in 1..Len(sent) : sent[i].frame = AwarenessFrame

\* C30 witness: a Joined viewer's awareness message reached another Joined transport of
\* its session.
ViewerAwarenessRelayed ==
    /\ ev.op = "awareness"
    /\ SenderJoined
    /\ SenderRole = "viewer"
    /\ \E d \in Conns \ {ev.ws} :
           Joined(d, SenderSession) /\ [to |-> d, frame |-> AwarenessFrame] \in Frames(sent)

\* the positions of the frames of the last handler addressed to d
FramesTo(d) == {i \in 1..Len(sent) : sent[i].to = d}

\* C31: a successful REST join puts exactly one user-joined frame, carrying the
\* session's user list with the new user in it, on every open transport registered in
\* that session's connection set, and no frame on a transport bound to another
\* session; a refused REST join puts no frame on any transport.
UserJoinedReachesSessionOnly ==
    ev.op = "joinSession"
    => IF ev.error # ""
       THEN sent = <<>>
       ELSE /\ ev.userId \in DOMAIN sessions[ev.sid].users
            /\ \A i \in 1..Len(sent) :
                   /\ sent[i].frame = [type |-> "user-joined",
                                       users |-> sessions[ev.sid].users]
                   /\ conn[sent[i].to].sessionId = ev.sid
            /\ \A d \in Conns :
                   (conn[d].state = "open" /\ d \in Registered(ev.sid))
                   => Cardinality(FramesTo(d)) = 1

\* C32: a document that exists keeps existing with everything merged into it: after
\* every request and every socket event, each session id that had a document before
\* still has one, and it holds every update it held before.  Neither a close, nor a
\* leave, nor the reclaiming of the session record removes or resets it.
DocumentKept ==
    \A sid \in DOMAIN pre.docs : sid \in DOMAIN docs /\ pre.docs[sid] \subseteq docs[sid]

\* C32 witness: the last member has left, so the session record is reclaimed, no
\* transport is bound to the session any more, and its document still holds an update.
DocOutlivesSession ==
    /\ ev.op = "leaveSession"
    /\ ev.sid \notin DOMAIN sessions
    /\ ev.sid \in DOMAIN docs
    /\ docs[ev.sid] # {}
    /\ \A c \in Conns : conn[c].sessionId # ev.sid

\* C33: the gate reads the registry when the sync arrives.  A well-formed sync from a
\* transport whose user is owner or editor in the registry at that moment is merged
\* and relayed; one from a transport whose user is a viewer there, or is no longer a
\* member, or whose session is reclaimed, changes no document and relays nothing.
\* The role the transport's init frame reported plays no part.
CurrentRoleDecides ==
    (ev.op = "sync" /\ ev.update \in Updates)
    => IF SenderRole \in {"owner", "editor"}
       THEN /\ ev.update \in docs[SenderSession]
            /\ \A d \in Conns \ {ev.ws} :
                   (conn[d].state = "open" /\ d \in Registered(SenderSession))
                   => [to |-> d, frame |-> [type |-> "sync", update |-> ev.update]]
                          \in Frames(sent)
       ELSE /\ docs = pre.docs
            /\ "sync" \notin FrameTypes(sent)

\* C33 witness: a transport whose init frame said editor, and whose user has been made
\* a viewer since, sent a sync on the still-open transport and it was denied.
DemotedEditorDenied ==
    /\ ev.op = "sync"
    /\ ev.update \in Updates
    /\ conn[ev.ws].state = "open"
    /\ held[ev.ws].role = "editor"
    /\ SenderRole = "viewer"
    /\ docs = pre.docs
    /\ FrameTypes(sent) = {"error"}

\* the {ws, userId} objects of a session's set in the registry cs
EntriesIn(cs, sid) ==
    IF sid \in DOMAIN cs THEN {cs[sid][i] : i \in 1..Len(cs[sid])} ELSE {}

\* C34: a user-disconnected notice for a user is put on the wire in a session only by
\* the close of a transport that was registered in that session for that user, and
\* only when no other open transport is registered there for the same user.
DisconnectNoticeOnlyWhenGone ==
    \A i \in 1..Len(sent) :
        sent[i].frame.type = "user-disconnected"
        => /\ ev.op = "close"
           /\ [ws |-> ev.ws, userId |-> sent[i].frame.userId]
                  \in EntriesIn(pre.connections, SenderSession)
           /\ \A d \in Conns \ {ev.ws} :
                  ~(/\ conn[d].state = "open"
                    /\ [ws |-> d, userId |-> sent[i].frame.userId]
                           \in EntriesIn(connections, SenderSession))

\* C35: every session has at most one owner, and an owner is the user recorded as the
\* session's ownerId when it was created; a join and a role change store viewer or
\* editor whatever role was asked for.
AtMostOneOwner ==
    /\ \A sid \in DOMAIN sessions :
           /\ Owners(sid) \subseteq {sessions[sid].ownerId}
           /\ Cardinality(Owners(sid)) <= 1
    /\ (ev.op = "joinSession" /\ ev.error = "")
       => /\ ev.granted \in {"viewer", "editor"}
          /\ GetUser(ev.sid, ev.userId) = ev.granted
    /\ (ev.op = "updateUserRole" /\ ev.error = "")
       => GetUser(ev.sid, ev.target) \in {"viewer", "editor"}

\* C35 witness: a user joined asking for role owner, and the session's only owner is
\* still the user who created it.
JoinAskedOwnerOneOwner ==
    /\ ev.op = "joinSession"
    /\ ev.error = ""
    /\ ev.role = "owner"
    /\ ev.userId # sessions[ev.sid].ownerId
    /\ Owners(ev.sid) = {sessions[ev.sid].ownerId}

\* C36: under fair delivery a pending connect promise is settled in the end: resolved
\* when the relay answers the join with init, rejected when it answers with an error
\* frame and closes the transport.
ConnectSettles ==
    \A c \in Conns :
        (client[c].promise = "pending") ~> (client[c].promise \in {"resolved", "rejected"})

\* C37: a client sends nothing because of a frame it receives: the handling of an
\* init, sync, awareness, user-connected, user-disconnected, user-joined or error
\* frame leaves the client's outgoing frames as they were.  So a sync message costs
\* the frames of its own fan-out and no more: at most one frame per transport, and no
\* sync frame back to its sender.
NoEcho ==
    /\ ev.op = "onmessage" => upstream[ev.ws] = ev.up
    /\ ev.op = "sync"
       => /\ \A d \in Conns : Cardinality(FramesTo(d)) <= 1
          /\ \A i \in 1..Len(sent) : sent[i].frame.type = "sync" => sent[i].to # ev.ws

\* C37 witness: a client that may edit was handed a sync frame with an update its
\* document lacked, merged it, and its outgoing frames are as they were.
RemoteUpdateNotEchoed ==
    /\ ev.op = "onmessage"
    /\ ev.frame.type = "sync"
    /\ ev.frame.update \notin ev.was.doc
    /\ ev.frame.update \in client[ev.ws].doc
    /\ client[ev.ws].role \in {"owner", "editor"}
    /\ client[ev.ws].ws = "open"
    /\ upstream[ev.ws] = ev.up

\* the handlers and methods of the client
ClientOps == {"connect", "onopen", "onmessage", "onclose", "onerror", "mutate",
              "sendAwareness"}

\* the frames the client handler or method run last has sent
Appended == SubSeq(upstream[ev.ws], Len(ev.up) + 1, Len(upstream[ev.ws]))

\* C38: while a client's role is viewer it sends no sync frame, each of its mutators
\* returns false and leaves its document as it was, and its document changes only when
\* it applies an init or sync frame received from the relay.
ViewerClientReadOnly ==
    (ev.op \in ClientOps /\ ev.was.role = "viewer")
    => /\ \A i \in 1..Len(Appended) : Appended[i].type # "sync"
       /\ ev.op = "mutate" => (~ev.result /\ client[ev.ws].doc = ev.was.doc)
       /\ client[ev.ws].doc # ev.was.doc
          => (ev.op = "onmessage" /\ ev.frame.type \in {"init", "sync"})

\* C38 witness: a connected viewer called a mutator whose target exists; it returned
\* false, the document lacks the edit and nothing was sent.
ViewerEditRefused ==
    /\ ev.op = "mutate"
    /\ ev.was.role = "viewer"
    /\ ev.was.ws = "open"
    /\ ev.was.promise = "resolved"
    /\ ev.found
    /\ ~ev.result
    /\ ev.update \notin client[ev.ws].doc
    /\ upstream[ev.ws] = ev.up

====
